---- MODULE Spec2Model ----
(***************************************************************************)
(* Model of nice_glfw's WindowBuilder (src/src/lib.rs): a fluent builder   *)
(* that accumulates window attributes, common hints and candidate hint     *)
(* sets, and whose create() drives a Glfw handle through the candidates in *)
(* order until one create_window call succeeds.                            *)
(*                                                                         *)
(* Option<T> is modelled as a sequence of length 0 (None) or 1 (Some(v)).  *)
(* A WindowHint is a pair <<key, value>> of strings.                       *)
(* Every call create() makes on the handle, on the window and on the log   *)
(* sink is recorded, in order, in `calls`.                                 *)
(***************************************************************************)
EXTENDS Integers, Sequences, FiniteSets, TLC

VARIABLES size, aspect_ratio, title, mode, common_hints, try_hints,
          glfw_hints, error_callback, calls, history, pc, setup, resolved,
          result

builder == <<size, aspect_ratio, title, mode, common_hints, try_hints>>
vars == <<size, aspect_ratio, title, mode, common_hints, try_hints,
          glfw_hints, error_callback, calls, history, pc, setup, resolved,
          result>>

\* Number of mutator calls chained on a builder before create().
MaxCalls == 2

-----------------------------------------------------------------------------
(* Hints and the handle's hint state *)

ContextVersion(v) == <<"ContextVersion", v>>
OpenGlForwardCompat(b) == <<"OpenGlForwardCompat", b>>
OpenGlProfile(p) == <<"OpenGlProfile", p>>
ContextNoError(b) == <<"ContextNoError", b>>
RefreshRate(r) == <<"RefreshRate", r>>

HintKeys == {"ContextVersion", "OpenGlForwardCompat", "OpenGlProfile",
             "ContextNoError", "RefreshRate"}

\* glfw.default_window_hints(): every hint back to the system default.
DefaultHints == [k \in HintKeys |-> "default"]

\* A hint state left on the handle by the caller before the builder ran.
StaleHints == [DefaultHints EXCEPT !["OpenGlProfile"] = "Compat",
                                   !["ContextNoError"] = "true"]

\* The error callback the caller bound when initialising the handle
\* (glfw::init(glfw::FAIL_ON_ERRORS) in the crate's example).
CallerErrorCallback == "FAIL_ON_ERRORS"

\* A reset that leaves the hint state as it is.
default_window_hints_noop(h) == h

default_window_hints(h) == DefaultHints

\* glfw.window_hint(hint): last applied wins.
window_hint(h, hint) == [h EXCEPT ![hint[1]] = hint[2]]

\* The handle's hint state after a sequence of recorded calls.
RECURSIVE RunCalls(_, _)
RunCalls(h, cs) ==
    IF cs = <<>> THEN h
    ELSE LET c == Head(cs) IN
         IF c[1] = "default_window_hints"
         THEN RunCalls(default_window_hints(h), Tail(cs))
         ELSE IF c[1] = "window_hint"
         THEN RunCalls(window_hint(h, c[2]), Tail(cs))
         ELSE RunCalls(h, Tail(cs))

-----------------------------------------------------------------------------
(* Inputs the callers pass to the mutators *)

Sizes == {<<800, 600>>, <<1024, 768>>}
Titles == {"Demo"}
Modes == {"FullScreen"}
Ratios == {<<16, 9>>}
Rates == {<<>>, <<"60">>}
HintLists == { <<>>,
               <<ContextVersion("3.3"), OpenGlProfile("Core")>>,
               <<OpenGlForwardCompat("true"), ContextVersion("2.1")>> }

-----------------------------------------------------------------------------
(* Pure parts of the mutators *)

unwrap_or(o, d) == IF o = <<>> THEN d ELSE o[1]

\* A push that puts the new candidate set in front of the older ones.
try_hints_push_front(list, hints) == <<hints>> \o list

\* self.try_hints.push(hints.iter().map(|&x| x).collect())
try_hints_push(list, hints) == Append(list, hints)

\* An extend that replaces the hints given by earlier calls.
common_hints_overwrite(list, hints) == hints

\* self.common_hints.extend(hints.iter().map(|&x| x))
common_hints_extend(list, hints) == list \o hints

\* The ladder without its bare 3.1 entry.
ModernLadder_Dropped ==
    << <<ContextVersion("4.5"), OpenGlForwardCompat("true"), OpenGlProfile("Core")>>,
       <<ContextVersion("4.4"), OpenGlForwardCompat("true"), OpenGlProfile("Core")>>,
       <<ContextVersion("4.3"), OpenGlForwardCompat("true"), OpenGlProfile("Core")>>,
       <<ContextVersion("4.2"), OpenGlForwardCompat("true"), OpenGlProfile("Core")>>,
       <<ContextVersion("4.1"), OpenGlForwardCompat("true"), OpenGlProfile("Core")>>,
       <<ContextVersion("4.0"), OpenGlForwardCompat("true"), OpenGlProfile("Core")>>,
       <<ContextVersion("3.2"), OpenGlForwardCompat("true"), OpenGlProfile("Core")>>,
       <<ContextVersion("3.1"), OpenGlForwardCompat("true")>>,
       <<ContextVersion("3.0"), OpenGlForwardCompat("true")>>,
       <<ContextVersion("3.0")>>,
       <<ContextVersion("2.1")>>,
       <<ContextVersion("2.0")>> >>

\* The ladder with bare 3.1 tried before forward-compatible 3.1.
ModernLadder_Swapped ==
    << <<ContextVersion("4.5"), OpenGlForwardCompat("true"), OpenGlProfile("Core")>>,
       <<ContextVersion("4.4"), OpenGlForwardCompat("true"), OpenGlProfile("Core")>>,
       <<ContextVersion("4.3"), OpenGlForwardCompat("true"), OpenGlProfile("Core")>>,
       <<ContextVersion("4.2"), OpenGlForwardCompat("true"), OpenGlProfile("Core")>>,
       <<ContextVersion("4.1"), OpenGlForwardCompat("true"), OpenGlProfile("Core")>>,
       <<ContextVersion("4.0"), OpenGlForwardCompat("true"), OpenGlProfile("Core")>>,
       <<ContextVersion("3.2"), OpenGlForwardCompat("true"), OpenGlProfile("Core")>>,
       <<ContextVersion("3.1")>>,
       <<ContextVersion("3.1"), OpenGlForwardCompat("true")>>,
       <<ContextVersion("3.0"), OpenGlForwardCompat("true")>>,
       <<ContextVersion("3.0")>>,
       <<ContextVersion("2.1")>>,
       <<ContextVersion("2.0")>> >>

\* The thirteen try_hints() arguments of try_modern_context_hints, in call order.
ModernLadder ==
    << <<ContextVersion("4.5"), OpenGlForwardCompat("true"), OpenGlProfile("Core")>>,
       <<ContextVersion("4.4"), OpenGlForwardCompat("true"), OpenGlProfile("Core")>>,
       <<ContextVersion("4.3"), OpenGlForwardCompat("true"), OpenGlProfile("Core")>>,
       <<ContextVersion("4.2"), OpenGlForwardCompat("true"), OpenGlProfile("Core")>>,
       <<ContextVersion("4.1"), OpenGlForwardCompat("true"), OpenGlProfile("Core")>>,
       <<ContextVersion("4.0"), OpenGlForwardCompat("true"), OpenGlProfile("Core")>>,
       <<ContextVersion("3.2"), OpenGlForwardCompat("true"), OpenGlProfile("Core")>>,
       <<ContextVersion("3.1"), OpenGlForwardCompat("true")>>,
       <<ContextVersion("3.1")>>,
       <<ContextVersion("3.0"), OpenGlForwardCompat("true")>>,
       <<ContextVersion("3.0")>>,
       <<ContextVersion("2.1")>>,
       <<ContextVersion("2.0")>> >>

\* The chain self.try_hints(a).try_hints(b)... : one push per argument.
RECURSIVE PushAll(_, _)
PushAll(list, sets) ==
    IF sets = <<>> THEN list
    ELSE PushAll(try_hints_push(list, Head(sets)), Tail(sets))

-----------------------------------------------------------------------------
(* Pure parts of create() *)

\* Defaults resolved all together: an unset size makes title and mode fall
\* back to their defaults too.
ResolveDefaults_Coupled(sz, ttl, md) ==
    IF sz = <<>>
    THEN [width |-> 640, height |-> 480, title |-> "GLFW Window", mode |-> "Windowed"]
    ELSE [width  |-> sz[1][1],
          height |-> sz[1][2],
          title  |-> unwrap_or(ttl, "GLFW Window"),
          mode   |-> unwrap_or(md, "Windowed")]

\* let (width, height) = size.unwrap_or((640, 480)); title...; mode...
ResolveDefaults(sz, ttl, md) ==
    [width  |-> unwrap_or(sz, <<640, 480>>)[1],
     height |-> unwrap_or(sz, <<640, 480>>)[2],
     title  |-> unwrap_or(ttl, "GLFW Window"),
     mode   |-> unwrap_or(md, "Windowed")]

\* The locals of create() before it runs.
Unresolved == [width |-> 0, height |-> 0, title |-> "", mode |-> ""]

\* A loop that treats "no candidates" as one empty candidate.
Setups_ImplicitEmpty(list) == IF list = <<>> THEN << <<>> >> ELSE list

\* for setup in try_hints.iter(): the sequence the loop walks.
Setups(list) == list

HintCalls(hints) == [i \in 1..Len(hints) |-> <<"window_hint", hints[i]>>]

\* An iteration that applies the setup's hints before the common hints.
AttemptCalls_SetupFirst(common, s) ==
    << <<"default_window_hints">> >> \o HintCalls(s) \o HintCalls(common)

\* One loop iteration up to the create_window call: reset, common hints,
\* then the hints of the current setup.
AttemptCalls(common, s) ==
    << <<"default_window_hints">> >> \o HintCalls(common) \o HintCalls(s)

NumCreates(cs) == Len(SelectSeq(cs, LAMBDA c : c[1] = "create_window"))

\* glfw.create_window(width, height, title, mode), with the hint state it
\* sees, its outcome and the identity of the window it produces.
CreateWindowCall(r, seen, ok, wid) ==
    <<"create_window", r.width, r.height, r.title, r.mode, seen, ok, wid>>

NewWindow(wid) == [id |-> wid, aspect |-> <<>>]
NewEvents(wid) == [of |-> wid]

\* window.set_aspect_ratio(numer, denom)
set_aspect_ratio(w, numer, denom) == [w EXCEPT !.aspect = << <<numer, denom>> >>]

\* The constraint applied with numerator and denominator exchanged.
AspectCalls_Swapped(wid, ar) ==
    IF ar = <<>> THEN <<>>
    ELSE << <<"set_aspect_ratio", wid, ar[1][2], ar[1][1]>> >>

\* if let Some((numer, denom)) = aspect_ratio { window.set_aspect_ratio(..) }
AspectCalls(wid, ar) ==
    IF ar = <<>> THEN <<>>
    ELSE << <<"set_aspect_ratio", wid, ar[1][1], ar[1][2]>> >>

WindowAfterAspect(w, ar) ==
    IF ar = <<>> THEN w ELSE set_aspect_ratio(w, ar[1][1], ar[1][2])

\* A create() that leaves the loop on success but falls through to None.
Returned_None(wid, ar) == <<>>

\* return Some((window, events))
Returned(wid, ar) == << <<WindowAfterAspect(NewWindow(wid), ar), NewEvents(wid)>> >>

-----------------------------------------------------------------------------
(* State machine *)

Init ==
    /\ size = <<>>
    /\ aspect_ratio = <<>>
    /\ title = <<>>
    /\ mode = <<>>
    /\ try_hints = <<>>
    /\ common_hints = <<>>
    /\ glfw_hints \in {DefaultHints, StaleHints}
    /\ error_callback = CallerErrorCallback
    /\ calls = <<>>
    /\ history = <<>>
    /\ pc = "config"
    /\ setup = 0
    /\ resolved = Unresolved
    /\ result = <<>>

CanChain == pc = "config" /\ Len(history) < MaxCalls

create_frame ==
    UNCHANGED <<glfw_hints, error_callback, calls, pc, setup, resolved, result>>

\* A size() that keeps the size given first.
fn_size_first_wins ==
    \E wh \in Sizes :
        /\ CanChain
        /\ size' = (IF size = <<>> THEN <<wh>> ELSE size)
        /\ history' = Append(history, <<"size", wh>>)
        /\ UNCHANGED <<aspect_ratio, title, mode, common_hints, try_hints>>
        /\ create_frame

fn_size ==
    \E wh \in Sizes :
        /\ CanChain
        /\ size' = <<wh>>
        /\ history' = Append(history, <<"size", wh>>)
        /\ UNCHANGED <<aspect_ratio, title, mode, common_hints, try_hints>>
        /\ create_frame

fn_title ==
    \E t \in Titles :
        /\ CanChain
        /\ title' = <<t>>
        /\ history' = Append(history, <<"title", t>>)
        /\ UNCHANGED <<size, aspect_ratio, mode, common_hints, try_hints>>
        /\ create_frame

fn_mode ==
    \E m \in Modes :
        /\ CanChain
        /\ mode' = <<m>>
        /\ history' = Append(history, <<"mode", m>>)
        /\ UNCHANGED <<size, aspect_ratio, title, common_hints, try_hints>>
        /\ create_frame

fn_no_error ==
    /\ CanChain
    /\ common_hints' = common_hints_extend(common_hints, <<ContextNoError("true")>>)
    /\ history' = Append(history, <<"no_error", <<>>>>)
    /\ UNCHANGED <<size, aspect_ratio, title, mode, try_hints>>
    /\ create_frame

fn_refresh_rate ==
    \E r \in Rates :
        /\ CanChain
        /\ common_hints' = common_hints_extend(common_hints,
                               <<RefreshRate(unwrap_or(r, "None"))>>)
        /\ history' = Append(history, <<"refresh_rate", r>>)
        /\ UNCHANGED <<size, aspect_ratio, title, mode, try_hints>>
        /\ create_frame

fn_try_hints ==
    \E hints \in HintLists :
        /\ CanChain
        /\ try_hints' = try_hints_push(try_hints, hints)
        /\ history' = Append(history, <<"try_hints", hints>>)
        /\ UNCHANGED <<size, aspect_ratio, title, mode, common_hints>>
        /\ create_frame

fn_aspect_ratio ==
    \E r \in Ratios :
        /\ CanChain
        /\ aspect_ratio' = <<r>>
        /\ history' = Append(history, <<"aspect_ratio", r>>)
        /\ UNCHANGED <<size, title, mode, common_hints, try_hints>>
        /\ create_frame

fn_common_hints ==
    \E hints \in HintLists :
        /\ CanChain
        /\ common_hints' = common_hints_extend(common_hints, hints)
        /\ history' = Append(history, <<"common_hints", hints>>)
        /\ UNCHANGED <<size, aspect_ratio, title, mode, try_hints>>
        /\ create_frame

fn_try_modern_context_hints ==
    /\ CanChain
    /\ try_hints' = PushAll(try_hints, ModernLadder)
    /\ history' = Append(history, <<"try_modern_context_hints", <<>>>>)
    /\ UNCHANGED <<size, aspect_ratio, title, mode, common_hints>>
    /\ create_frame

\* create(): destructure the builder and resolve the defaults.
create_begin ==
    /\ pc = "config"
    /\ resolved' = ResolveDefaults(size, title, mode)
    /\ setup' = 1
    /\ pc' = "loop"
    /\ UNCHANGED <<builder, glfw_hints, error_callback, calls, history, result>>

\* A successful iteration that does not return: the loop goes on to the
\* next candidate.
create_attempt_ok_continue ==
    /\ pc = "loop"
    /\ setup <= Len(Setups(try_hints))
    /\ LET s    == Setups(try_hints)[setup]
           pre  == AttemptCalls(common_hints, s)
           seen == RunCalls(glfw_hints, pre)
           wid  == NumCreates(calls) + 1
       IN /\ glfw_hints' = seen
          /\ calls' = calls \o pre
                        \o << CreateWindowCall(resolved, seen, TRUE, wid),
                              <<"info", common_hints, s>> >>
                        \o AspectCalls(wid, aspect_ratio)
          /\ result' = Returned(wid, aspect_ratio)
    /\ setup' = setup + 1
    /\ UNCHANGED <<builder, error_callback, history, pc, resolved>>

\* A successful iteration that puts the hints back to the defaults before
\* it returns.
create_attempt_ok_cleanup ==
    /\ pc = "loop"
    /\ setup <= Len(Setups(try_hints))
    /\ LET s    == Setups(try_hints)[setup]
           pre  == AttemptCalls(common_hints, s)
           seen == RunCalls(glfw_hints, pre)
           wid  == NumCreates(calls) + 1
       IN /\ glfw_hints' = default_window_hints(seen)
          /\ calls' = calls \o pre
                        \o << CreateWindowCall(resolved, seen, TRUE, wid),
                              <<"info", common_hints, s>> >>
                        \o AspectCalls(wid, aspect_ratio)
          /\ result' = Returned(wid, aspect_ratio)
    /\ pc' = "done"
    /\ UNCHANGED <<builder, error_callback, history, setup, resolved>>

\* One loop iteration whose create_window call returns Some.
create_attempt_ok ==
    /\ pc = "loop"
    /\ setup <= Len(Setups(try_hints))
    /\ LET s    == Setups(try_hints)[setup]
           pre  == AttemptCalls(common_hints, s)
           seen == RunCalls(glfw_hints, pre)
           wid  == NumCreates(calls) + 1
       IN /\ glfw_hints' = seen
          /\ calls' = calls \o pre
                        \o << CreateWindowCall(resolved, seen, TRUE, wid),
                              <<"info", common_hints, s>> >>
                        \o AspectCalls(wid, aspect_ratio)
          /\ result' = Returned(wid, aspect_ratio)
    /\ pc' = "done"
    /\ UNCHANGED <<builder, error_callback, history, setup, resolved>>

\* A failed iteration that logs nothing.
create_attempt_fail_silent ==
    /\ pc = "loop"
    /\ setup <= Len(Setups(try_hints))
    /\ LET s    == Setups(try_hints)[setup]
           pre  == AttemptCalls(common_hints, s)
           seen == RunCalls(glfw_hints, pre)
           wid  == NumCreates(calls) + 1
       IN /\ glfw_hints' = seen
          /\ calls' = calls \o pre
                        \o << CreateWindowCall(resolved, seen, FALSE, wid) >>
    /\ setup' = setup + 1
    /\ UNCHANGED <<builder, error_callback, history, pc, resolved, result>>

\* A failed iteration that steps over the candidate after the failed one.
create_attempt_fail_skip ==
    /\ pc = "loop"
    /\ setup <= Len(Setups(try_hints))
    /\ LET s    == Setups(try_hints)[setup]
           pre  == AttemptCalls(common_hints, s)
           seen == RunCalls(glfw_hints, pre)
           wid  == NumCreates(calls) + 1
       IN /\ glfw_hints' = seen
          /\ calls' = calls \o pre
                        \o << CreateWindowCall(resolved, seen, FALSE, wid),
                              <<"debug", common_hints, s>> >>
    /\ setup' = setup + 2
    /\ UNCHANGED <<builder, error_callback, history, pc, resolved, result>>

\* One loop iteration whose create_window call returns None.
create_attempt_fail ==
    /\ pc = "loop"
    /\ setup <= Len(Setups(try_hints))
    /\ LET s    == Setups(try_hints)[setup]
           pre  == AttemptCalls(common_hints, s)
           seen == RunCalls(glfw_hints, pre)
           wid  == NumCreates(calls) + 1
       IN /\ glfw_hints' = seen
          /\ calls' = calls \o pre
                        \o << CreateWindowCall(resolved, seen, FALSE, wid),
                              <<"debug", common_hints, s>> >>
    /\ setup' = setup + 1
    /\ UNCHANGED <<builder, error_callback, history, pc, resolved, result>>

\* A final None that first resets the handle's hints.
create_none_reset ==
    /\ pc = "loop"
    /\ setup > Len(Setups(try_hints))
    /\ glfw_hints' = default_window_hints(glfw_hints)
    /\ calls' = Append(calls, <<"default_window_hints">>)
    /\ result' = <<>>
    /\ pc' = "done"
    /\ UNCHANGED <<builder, error_callback, history, setup, resolved>>

\* The loop is exhausted: create() returns None.
create_none ==
    /\ pc = "loop"
    /\ setup > Len(Setups(try_hints))
    /\ result' = <<>>
    /\ pc' = "done"
    /\ UNCHANGED <<builder, glfw_hints, error_callback, calls, history, setup,
                   resolved>>

Next ==
    \/ fn_size
    \/ fn_title
    \/ fn_mode
    \/ fn_no_error
    \/ fn_refresh_rate
    \/ fn_try_hints
    \/ fn_aspect_ratio
    \/ fn_common_hints
    \/ fn_try_modern_context_hints
    \/ create_begin
    \/ create_attempt_ok
    \/ create_attempt_fail
    \/ create_none

Spec == Init /\ [][Next]_vars

\* The body of create() once it has been entered: the loop and the final None.
create_step == create_attempt_ok \/ create_attempt_fail \/ create_none

\* create() is straight-line sequential code on the caller's thread: once
\* entered it keeps running until it returns.
LiveSpec == Init /\ [][Next]_vars /\ WF_vars(create_step)

-----------------------------------------------------------------------------
(* Reading the recorded calls *)

HandleOps == {"default_window_hints", "window_hint", "create_window"}

\* Positions in `calls` of the create_window calls, in order.
CreateIdx ==
    SelectSeq([i \in 1..Len(calls) |-> i], LAMBDA i : calls[i][1] = "create_window")

\* Number of creation attempts made so far.
NumAttempts == Len(CreateIdx)

\* Position in `calls` of the k-th create_window call.
CreateAt(k) == CreateIdx[k]

CreateOk(k) == calls[CreateAt(k)][7]

\* The calls of the k-th attempt: everything after the previous
\* create_window call up to and including the k-th one.
Segment(k) == SubSeq(calls, IF k = 1 THEN 1 ELSE CreateAt(k - 1) + 1, CreateAt(k))

OnHandle(cs) == SelectSeq(cs, LAMBDA c : c[1] \in HandleOps)

CountOp(cs, op) == Len(SelectSeq(cs, LAMBDA c : c[1] = op))

\* The hints applied by the window_hint calls of cs, in order.
HintsOf(cs) ==
    LET hs == SelectSeq(cs, LAMBDA c : c[1] = "window_hint")
    IN [i \in 1..Len(hs) |-> hs[i][2]]

\* The hints applied in the k-th attempt.
AttemptHints(k) == HintsOf(Segment(k))

LastN(sq, n) == SubSeq(sq, Len(sq) - n + 1, Len(sq))

\* The candidate sets handed to the builder, in the order of the calls that
\* handed them over.
RECURSIVE Appended(_)
Appended(h) ==
    IF h = <<>> THEN <<>>
    ELSE LET c == Head(h) IN
         (IF c[1] = "try_hints" THEN <<c[2]>>
          ELSE IF c[1] = "try_modern_context_hints" THEN ModernLadder
          ELSE <<>>) \o Appended(Tail(h))

-----------------------------------------------------------------------------
(* C1: create() attempts the candidate sets in exactly the order they were *)
(* appended: the k-th attempt applies the k-th appended set, none skipped, *)
(* repeated or reordered.                                                  *)
C1_AttemptsInAppendOrder ==
    LET app == Appended(history) IN
    /\ NumAttempts <= Len(app)
    /\ \A k \in 1..NumAttempts :
          /\ Len(AttemptHints(k)) >= Len(app[k])
          /\ LastN(AttemptHints(k), Len(app[k])) = app[k]
    /\ (pc = "loop") => (NumAttempts = setup - 1)
    /\ (pc = "done" /\ result = <<>>) => (NumAttempts = Len(app))

C1_Witness ==
    /\ pc = "done"
    /\ NumAttempts >= 2
    /\ Appended(history)[1] # Appended(history)[2]
    /\ AttemptHints(2) = common_hints \o Appended(history)[2]

(* C2: if the N-th candidate is the first to succeed, exactly N            *)
(* create_window calls and N resets happen, each create_window call is     *)
(* preceded by a reset made after the previous create_window call, and     *)
(* nothing is reset, applied or created after the successful call.         *)
C2_StopsAtFirstSuccess ==
    /\ \A k \in 1..NumAttempts :
          /\ CountOp(Segment(k), "default_window_hints") = 1
          /\ CreateOk(k) =>
                /\ k = NumAttempts
                /\ \A i \in (CreateAt(k) + 1)..Len(calls) : calls[i][1] \notin HandleOps
                /\ pc = "done"
                /\ result # <<>>
                /\ result[1][1].id = calls[CreateAt(k)][8]
                /\ result[1][2].of = calls[CreateAt(k)][8]
    /\ CountOp(calls, "default_window_hints") = NumAttempts
    /\ CountOp(calls, "create_window") = NumAttempts

C2_Witness ==
    /\ pc = "done"
    /\ NumAttempts = 2
    /\ ~CreateOk(1)
    /\ CreateOk(2)
    /\ Len(try_hints) > 2
    /\ CountOp(calls, "default_window_hints") = 2
    /\ result[1][1].id = 2

(* C3: in every attempt the calls on the handle are exactly: the reset,    *)
(* the common hints in the order added, the current candidate's hints in   *)
(* their order, then create_window; nothing else is applied.               *)
C3_CommonThenCandidate ==
    \A k \in 1..NumAttempts :
        LET seg == OnHandle(Segment(k))
            n   == Len(common_hints)
            m   == Len(try_hints[k])
        IN /\ k <= Len(try_hints)
           /\ Len(seg) = n + m + 2
           /\ seg[1][1] = "default_window_hints"
           /\ \A i \in 1..n : /\ seg[1 + i][1] = "window_hint"
                              /\ seg[1 + i][2] = common_hints[i]
           /\ \A i \in 1..m : /\ seg[1 + n + i][1] = "window_hint"
                              /\ seg[1 + n + i][2] = try_hints[k][i]
           /\ seg[n + m + 2][1] = "create_window"

C3_Witness ==
    /\ NumAttempts >= 1
    /\ Len(common_hints) >= 2
    /\ Len(try_hints[1]) >= 2
    /\ common_hints[1] # try_hints[1][1]
    /\ AttemptHints(1) = common_hints \o try_hints[1]

\* Position of the last element of idx, a non-empty set of positions.
MaxOf(idx) == CHOOSE i \in idx : \A j \in idx : j <= i

MinOf(idx) == CHOOSE i \in idx : \A j \in idx : i <= j

(* C4: create() returns a present (window, events) pair exactly when some  *)
(* create_window call succeeded, the pair being the one of the first       *)
(* successful call; it returns absent when every candidate failed or none  *)
(* was provided.                                                           *)
C4_PresentIffSomeSuccess ==
    LET oks == {k \in 1..NumAttempts : CreateOk(k)} IN
    /\ (pc # "done") => (result = <<>>)
    /\ (pc = "done") =>
          /\ (result # <<>>) <=> (oks # {})
          /\ (oks # {}) =>
                /\ result[1][1].id = calls[CreateAt(MinOf(oks))][8]
                /\ result[1][2].of = calls[CreateAt(MinOf(oks))][8]
          /\ (oks = {}) => (NumAttempts = Len(try_hints))

C4_Witness ==
    /\ pc = "done"
    /\ NumAttempts = 3
    /\ CreateOk(3)
    /\ result # <<>>
    /\ result[1][1].id = 3
    /\ result[1][2].of = 3

\* The value of hint `key` after applying hs to the defaults: the last
\* hint of hs for that key, the default when hs has none.
LastApplied(hs, key) ==
    LET idx == {i \in 1..Len(hs) : hs[i][1] = key}
    IN IF idx = {} THEN "default" ELSE hs[MaxOf(idx)][2]

(* C5: the hint state every create_window call sees is the system defaults *)
(* overridden by the common hints and then by the current candidate's      *)
(* hints only; nothing set before create() or by an earlier candidate is   *)
(* still in effect.                                                        *)
C5_OnlyCurrentCandidateInEffect ==
    \A k \in 1..NumAttempts :
        /\ k <= Len(try_hints)
        /\ calls[CreateAt(k)][6] =
              [key \in HintKeys |-> LastApplied(common_hints \o try_hints[k], key)]

C5_Witness ==
    /\ NumAttempts >= 2
    /\ \E k \in 2..NumAttempts :
          /\ calls[CreateAt(k - 1)][6]["OpenGlProfile"] = "Core"
          /\ calls[CreateAt(k)][6]["OpenGlProfile"] = "default"
          /\ calls[CreateAt(k)][6]["ContextVersion"] # "default"

AspectIdx == {i \in 1..Len(calls) : calls[i][1] = "set_aspect_ratio"}

(* C6: set_aspect_ratio is called iff a create_window call succeeded and an *)
(* aspect ratio was configured; at most once, with the configured numerator *)
(* and denominator, on the returned window, before create() returns; never  *)
(* after a failed attempt nor when create() returns absent.                 *)
C6_AspectRatioIffSuccessAndConfigured ==
    /\ Cardinality(AspectIdx) <= 1
    /\ (pc = "done") =>
          ((AspectIdx # {}) <=>
              (aspect_ratio # <<>> /\ \E k \in 1..NumAttempts : CreateOk(k)))
    /\ (pc = "done" /\ result = <<>>) => (AspectIdx = {})
    /\ (pc = "done" /\ result # <<>>) => (result[1][1].aspect = aspect_ratio)
    /\ \A i \in AspectIdx :
          /\ aspect_ratio # <<>>
          /\ calls[i][3] = aspect_ratio[1][1]
          /\ calls[i][4] = aspect_ratio[1][2]
          /\ NumAttempts >= 1
          /\ CreateAt(NumAttempts) < i
          /\ CreateOk(NumAttempts)
          /\ calls[i][2] = calls[CreateAt(NumAttempts)][8]
          /\ pc = "done"
          /\ result # <<>>
          /\ result[1][1].id = calls[i][2]

C6_Witness ==
    /\ pc = "done"
    /\ NumAttempts = 2
    /\ ~CreateOk(1)
    /\ CreateOk(2)
    /\ aspect_ratio = << <<16, 9>> >>
    /\ Cardinality(AspectIdx) = 1
    /\ result[1][1].aspect = << <<16, 9>> >>

\* The argument of the most recent call of mutator `name`, as an Option.
LastArg(name) ==
    LET idx == {i \in 1..Len(history) : history[i][1] = name}
    IN IF idx = {} THEN <<>> ELSE <<history[MaxOf(idx)][2]>>

(* C7: every create_window call of one create() gets the same (width,      *)
(* height, title, mode): the value given to the setter when it was called, *)
(* and 640x480, "GLFW Window", Windowed precisely for the attributes whose *)
(* setter was never called, each resolved on its own.                      *)
C7_DefaultsWhenUnset ==
    \A k \in 1..NumAttempts :
        LET c == calls[CreateAt(k)] IN
        /\ c[2] = (IF LastArg("size") = <<>> THEN 640 ELSE LastArg("size")[1][1])
        /\ c[3] = (IF LastArg("size") = <<>> THEN 480 ELSE LastArg("size")[1][2])
        /\ c[4] = (IF LastArg("title") = <<>> THEN "GLFW Window" ELSE LastArg("title")[1])
        /\ c[5] = (IF LastArg("mode") = <<>> THEN "Windowed" ELSE LastArg("mode")[1])

C7_Witness ==
    /\ NumAttempts >= 2
    /\ LastArg("size") = <<>>
    /\ LastArg("title") = <<"Demo">>
    /\ \A k \in 1..NumAttempts :
          /\ calls[CreateAt(k)][2] = 640
          /\ calls[CreateAt(k)][3] = 480
          /\ calls[CreateAt(k)][4] = "Demo"
          /\ calls[CreateAt(k)][5] = "Windowed"

CountHist(name) == Len(SelectSeq(history, LAMBDA c : c[1] = name))

(* C8 as stated: try_modern_context_hints appends exactly twelve candidate *)
(* entries.                                                                *)
C8_TwelveEntries ==
    Len(try_hints) = CountHist("try_hints") + 12 * CountHist("try_modern_context_hints")

(* C8, amended: try_modern_context_hints appends exactly thirteen candidate *)
(* entries.                                                                 *)
C8_ThirteenEntries ==
    Len(try_hints) = CountHist("try_hints") + 13 * CountHist("try_modern_context_hints")

C8_Witness ==
    /\ CountHist("try_modern_context_hints") = 1
    /\ CountHist("try_hints") = 1
    /\ Len(try_hints) = 14

\* The ladder as documented: seven forward-compatible core-profile entries,
\* then 3.1 forward-compatible, 3.1, 3.0 forward-compatible, 3.0, 2.1, 2.0.
CoreVersions == <<"4.5", "4.4", "4.3", "4.2", "4.1", "4.0", "3.2">>

DocumentedLadder ==
    [i \in 1..7 |-> << <<"ContextVersion", CoreVersions[i]>>,
                       <<"OpenGlForwardCompat", "true">>,
                       <<"OpenGlProfile", "Core">> >>]
    \o << << <<"ContextVersion", "3.1">>, <<"OpenGlForwardCompat", "true">> >>,
          << <<"ContextVersion", "3.1">> >>,
          << <<"ContextVersion", "3.0">>, <<"OpenGlForwardCompat", "true">> >>,
          << <<"ContextVersion", "3.0">> >>,
          << <<"ContextVersion", "2.1">> >>,
          << <<"ContextVersion", "2.0">> >> >>

\* The candidate list the documentation promises for a chain of calls.
RECURSIVE Documented(_)
Documented(h) ==
    IF h = <<>> THEN <<>>
    ELSE LET c == Head(h) IN
         (IF c[1] = "try_hints" THEN <<c[2]>>
          ELSE IF c[1] = "try_modern_context_hints" THEN DocumentedLadder
          ELSE <<>>) \o Documented(Tail(h))

C10_ImplicitEmptyCandidate ==
    (pc = "done" /\ try_hints = <<>>) =>
        /\ NumAttempts = 1
        /\ AttemptHints(1) = common_hints

(* C10, amended: with zero candidate sets create() makes no creation       *)
(* attempt at all, whatever the common hints are, and returns absent.      *)
C10_NoCandidatesNoAttempt ==
    (pc \in {"loop", "done"} /\ try_hints = <<>>) =>
        /\ NumAttempts = 0
        /\ result = <<>>

C10_Witness ==
    /\ pc = "done"
    /\ try_hints = <<>>
    /\ common_hints # <<>>
    /\ NumAttempts = 0
    /\ result = <<>>

(* C11: whenever create() makes at least one attempt, the error callback   *)
(* bound on the handle after create() returns is no longer the one the     *)
(* caller had bound before the call.                                       *)
C11_ErrorCallbackDisabled ==
    (pc = "done" /\ NumAttempts >= 1) => (error_callback # CallerErrorCallback)

\* The common hints a chain of calls hands over, in call order.
RECURSIVE CommonGiven(_)
CommonGiven(h) ==
    IF h = <<>> THEN <<>>
    ELSE LET c == Head(h) IN
         (IF c[1] = "common_hints" THEN c[2]
          ELSE IF c[1] = "no_error" THEN << <<"ContextNoError", "true">> >>
          ELSE IF c[1] = "refresh_rate"
               THEN << <<"RefreshRate", IF c[2] = <<>> THEN "None" ELSE c[2][1]>> >>
          ELSE <<>>) \o CommonGiven(Tail(h))

(* C12: after any chain of mutator calls on a fresh builder, common_hints  *)
(* is the concatenation, in call order, of the common_hints arguments with *)
(* no_error and refresh_rate contributing their single hint in place, and  *)
(* the candidate list is the sequence of try_hints arguments in call       *)
(* order, one entry per call; nothing is deduplicated, merged, reordered   *)
(* or dropped, and neither list is touched by calls for the other.         *)
C12_HintListsAccumulateInCallOrder ==
    /\ common_hints = CommonGiven(history)
    /\ try_hints = Appended(history)
    /\ Len(try_hints) =
          CountHist("try_hints") + Len(ModernLadder) * CountHist("try_modern_context_hints")

C12_Witness ==
    /\ Len(history) = 2
    /\ history[1][1] = "common_hints"
    /\ history[1][2] # <<>>
    /\ history[2][1] = "common_hints"
    /\ history[2][2] = history[1][2]
    /\ common_hints = history[1][2] \o history[1][2]
    /\ try_hints = <<>>

(* C13: try_modern_context_hints adds exactly two try_hints candidate      *)
(* sets, one for OpenGL 3.2 core and one for 2.0, in that order.           *)
C13_TwoEntries ==
    /\ Len(try_hints) =
          CountHist("try_hints") + 2 * CountHist("try_modern_context_hints")
    /\ (Len(history) = 1 /\ history[1][1] = "try_modern_context_hints") =>
          /\ try_hints[1][1] = <<"ContextVersion", "3.2">>
          /\ try_hints[2][1] = <<"ContextVersion", "2.0">>

C14_Safe ==
    /\ pc \in {"config", "loop", "done"}
    /\ result = <<>> \/ Len(result) = 1
    /\ (pc = "loop") =>
          /\ setup \in 1..(Len(try_hints) + 1)
          /\ NumAttempts = setup - 1
          /\ \A k \in 1..NumAttempts : ~CreateOk(k)
    /\ (pc = "done" /\ result = <<>>) =>
          /\ CountOp(calls, "default_window_hints") = Len(try_hints)
          /\ CountOp(calls, "create_window") = Len(try_hints)
          /\ \A k \in 1..NumAttempts : ~CreateOk(k)

(* C14: create() never ends in an error state and always terminates: once  *)
(* entered it eventually returns a present or an absent result; a failed   *)
(* create_window call only moves the loop to the next candidate, and when  *)
(* all k candidates fail exactly k resets and k create_window calls were   *)
(* made before absent is returned.                                         *)
C14_CreateTerminates ==
    /\ []C14_Safe
    /\ (pc = "loop") ~> (pc = "done")

C14_Witness ==
    /\ pc = "done"
    /\ result = <<>>
    /\ Len(try_hints) = 13
    /\ CountOp(calls, "default_window_hints") = 13
    /\ CountOp(calls, "create_window") = 13

(* C15: with zero candidate sets create() skips creation entirely: no      *)
(* default_window_hints, window_hint, create_window or set_aspect_ratio    *)
(* call is made, even with common hints and an aspect ratio configured,    *)
(* the handle's hint state stays as it was, and absent is returned.        *)
C15_NoCandidatesNoCalls ==
    [][(try_hints' = <<>>) =>
          /\ calls' = <<>>
          /\ glfw_hints' = glfw_hints
          /\ (pc' = "done") => (result' = <<>>)]_vars

C15_Witness ==
    /\ pc = "done"
    /\ try_hints = <<>>
    /\ common_hints # <<>>
    /\ aspect_ratio # <<>>
    /\ calls = <<>>
    /\ glfw_hints = StaleHints
    /\ result = <<>>

\* The mutator a step calls, "none" for a step of create().
CalledIn(h, hnext) ==
    IF Len(hnext) = Len(h) + 1 THEN hnext[Len(hnext)][1] ELSE "none"

C16_LastCallWins ==
    /\ size = LastArg("size")
    /\ title = LastArg("title")
    /\ mode = LastArg("mode")
    /\ aspect_ratio = LastArg("aspect_ratio")
    /\ (pc = "config") => (calls = <<>>)

C16_Frame ==
    LET f == CalledIn(history, history') IN
    /\ (f = "size") =>
          UNCHANGED <<aspect_ratio, title, mode, common_hints, try_hints>>
    /\ (f = "title") =>
          UNCHANGED <<size, aspect_ratio, mode, common_hints, try_hints>>
    /\ (f = "mode") =>
          UNCHANGED <<size, aspect_ratio, title, common_hints, try_hints>>
    /\ (f = "aspect_ratio") =>
          UNCHANGED <<size, title, mode, common_hints, try_hints>>
    /\ (f # "none") => UNCHANGED <<glfw_hints, error_callback, calls>>

(* C16: size, title, mode and aspect_ratio each overwrite only their own   *)
(* field: the field holds the argument of the most recent call of its      *)
(* setter, a setter call leaves every other attribute, common_hints and    *)
(* the candidate list unchanged, and no mutator makes a call on the handle *)
(* before create().                                                        *)
C16_SettersOverwriteOwnField ==
    /\ []C16_LastCallWins
    /\ [][C16_Frame]_vars

C16_Witness ==
    /\ Len(history) = 2
    /\ history[1][1] = "size"
    /\ history[2][1] = "size"
    /\ history[1][2] # history[2][2]
    /\ size = <<history[2][2]>>
    /\ title = <<>>
    /\ calls = <<>>

(* C17: create() does not put the hints back to the defaults before it     *)
(* returns: after at least one attempt the handle's hint state is the one  *)
(* of the last attempt made (defaults, then common hints, then the winning *)
(* candidate on success or the last candidate on total failure).           *)
C17_HintsOfLastAttemptRemain ==
    (pc = "done" /\ NumAttempts >= 1) =>
        LET n == NumAttempts IN
        /\ n <= Len(try_hints)
        /\ glfw_hints = calls[CreateAt(n)][6]
        /\ glfw_hints =
              [key \in HintKeys |-> LastApplied(common_hints \o try_hints[n], key)]
        /\ (result = <<>>) => (n = Len(try_hints))
        /\ (result # <<>>) => (CreateOk(n) /\ result[1][1].id = calls[CreateAt(n)][8])

C17_Witness ==
    /\ pc = "done"
    /\ result # <<>>
    /\ NumAttempts = 2
    /\ common_hints # <<>>
    /\ glfw_hints # DefaultHints
    /\ glfw_hints = calls[CreateAt(2)][6]

(* C18: log records follow the attempts one to one: a failed attempt emits *)
(* one debug record naming the common hints and that candidate's hints     *)
(* before the next reset, a successful one emits one info record naming    *)
(* the common hints and the winning candidate's hints before the aspect    *)
(* ratio is applied; N-1 debug records then one info record when the N-th  *)
(* candidate wins, no info record when create() returns absent.            *)
C18_LogRecordsFollowAttempts ==
    /\ \A k \in 1..NumAttempts :
          LET p == CreateAt(k) IN
          /\ p + 1 <= Len(calls)
          /\ k <= Len(try_hints)
          /\ calls[p + 1][1] = (IF CreateOk(k) THEN "info" ELSE "debug")
          /\ calls[p + 1][2] = common_hints
          /\ calls[p + 1][3] = try_hints[k]
    /\ CountOp(calls, "debug") = Cardinality({k \in 1..NumAttempts : ~CreateOk(k)})
    /\ CountOp(calls, "info") = Cardinality({k \in 1..NumAttempts : CreateOk(k)})
    /\ CountOp(calls, "info") <= 1
    /\ \A i \in AspectIdx : calls[i - 1][1] = "info"
    /\ (pc = "done" /\ result = <<>>) => (CountOp(calls, "info") = 0)
    /\ (pc = "done" /\ result # <<>>) =>
          /\ CountOp(calls, "info") = 1
          /\ CountOp(calls, "debug") = NumAttempts - 1
          /\ calls[CreateAt(NumAttempts) + 1][1] = "info"

C18_Witness ==
    /\ pc = "done"
    /\ NumAttempts = 3
    /\ CreateOk(3)
    /\ CountOp(calls, "debug") = 2
    /\ CountOp(calls, "info") = 1
    /\ AspectIdx # {}
    /\ calls[Len(calls) - 1][1] = "info"
    /\ calls[Len(calls)][1] = "set_aspect_ratio"

====
